---- MODULE Spec2Model ----
(***************************************************************************)
(* Mesh snapping (transform_snap_object_mesh.cc) and the "Shader Test"     *)
(* GPU node (test_shader.cc).                                              *)
(*                                                                         *)
(* Distances are fixed-point numbers: the integer v stands for v / Unit.   *)
(* Products and quotients round to the nearest grid value, as float        *)
(* arithmetic rounds to the nearest representable value.                   *)
(***************************************************************************)
EXTENDS Integers, Sequences, FiniteSets

\* ------------------------------------------------------------------ bounds
Unit == 2
MaxObjects == 2
MaxHitList == 2

\* ------------------------------------------------------- program constants
\* BVH_RAYCAST_DIST_MAX (FLT_MAX / 2), scaled to the model's range.
BVH_RAYCAST_DIST_MAX == 4000
\* The 400.0f of "if (len_diff > 400.0f)".
LenDiffFar == 400

\* eSnapMode is a bit set; a value is the set of its bits.
SCE_SNAP_TO_NONE == {}
SCE_SNAP_TO_VERTEX == {"VERTEX"}
SCE_SNAP_TO_EDGE == {"EDGE"}
SCE_SNAP_TO_FACE == {"FACE"}
SCE_SNAP_TO_EDGE_MIDPOINT == {"EDGE_MIDPOINT"}
SCE_SNAP_TO_EDGE_PERPENDICULAR == {"EDGE_PERPENDICULAR"}
SCE_SNAP_INDIVIDUAL_NEAREST == {"INDIVIDUAL_NEAREST"}

SnapModeBits ==
  SCE_SNAP_TO_VERTEX \cup SCE_SNAP_TO_EDGE \cup SCE_SNAP_TO_FACE
    \cup SCE_SNAP_TO_EDGE_MIDPOINT \cup SCE_SNAP_TO_EDGE_PERPENDICULAR
    \cup SCE_SNAP_INDIVIDUAL_NEAREST

\* ------------------------------------------------------------------ meshes
\* Mesh: element counts, the triangle -> polygon map (looptri_polys, polygon
\* indices from 0), and whether loose vertices / loose edges exist.
MeshOf(v, e, p, ltp, lv, le) ==
  [totvert |-> v, totedge |-> e, totpoly |-> p, looptri_polys |-> ltp,
   loose_verts |-> lv, loose_edges |-> le]

Meshes ==
  { MeshOf(0, 0, 0, <<>>, FALSE, FALSE),
    MeshOf(2, 0, 0, <<>>, TRUE, FALSE),
    MeshOf(2, 1, 0, <<>>, FALSE, TRUE),
    MeshOf(3, 3, 1, <<0>>, FALSE, FALSE),
    MeshOf(6, 7, 2, <<0, 0, 1>>, TRUE, TRUE) }

\* ------------------------------------------------------------- float model
RoundDiv(a, b) == (2 * a + b) \div (2 * b)
FMul(a, b) == RoundDiv(a * b, Unit)
FDiv(a, b) == RoundDiv(a * Unit, b)

\* local_scale = |imat * ray_dir|: the object's inverse scale along the ray.
LocalScales == {1, Unit, 2 * Unit}
\* Distances isect_ray_aabb_v3_simple can report to the bounding box.
LenDiffs == {0, 100 * Unit, (LenDiffFar + 1) * Unit}
\* Distances along the local ray at which a triangle can be hit.
HitDists == {1, 10, 3000}

\* ---------------------------------------------------------------- snapMesh
\* What one projected-nearest BVH search visits: nothing, or an element
\* (its index in the mesh arrays) at a squared screen distance.
NoCand == [index |-> -1, dist_sq |-> 0]
NearCands == {NoCand} \cup [index : 0 .. 1, dist_sq : 1 .. 2]
DistPxSqs == {3}

\* cb_snap_vert / cb_snap_edge on the visited element: a closer element
\* replaces the nearest one.
cb_snap_elem(nearest, cand) ==
  IF cand # NoCand /\ cand.dist_sq < nearest.dist_sq
    THEN [index |-> cand.index, dist_sq |-> cand.dist_sq]
    ELSE nearest

\* cb_snap_edge_verts, cb_snap_tri_verts, cb_snap_tri_edges: an element
\* whose index equals nearest->index is skipped.
cb_snap_skip_same(nearest, cand) ==
  IF cand # NoCand /\ cand.index = nearest.index
    THEN nearest
    ELSE cb_snap_elem(nearest, cand)

\* x: is_ob_data (ob_eval->data == me_eval), bb_ok (snap_boundbox), and the
\* elements visited in the loose-vertex, loose-edge and looptri trees.
SnapInputsOver(boxes, cands) ==
  [is_ob_data : {TRUE}, bb_ok : boxes, lv : cands, le : cands, tri : cands]
SnapInputs ==
  SnapInputsOver(BOOLEAN, NearCands)
    \cup [is_ob_data : {FALSE}, bb_ok : {FALSE}, lv : NearCands, le : NearCands,
          tri : NearCands]
SnapInputsFew == SnapInputsOver(BOOLEAN, {NoCand, [index |-> 0, dist_sq |-> 1]})

\* The BLI_asserts of snapMesh are compiled out of release builds and are
\* not part of the value computed; the one at line 562 (the else branch
\* requires SCE_SNAP_TO_VERTEX in the flag) fails exactly when the else
\* branch runs with neither EDGE nor VERTEX requested.
snapMesh(flag, me, tree, dist_px_sq, x) ==
  IF me.totvert = 0 THEN SCE_SNAP_TO_NONE
  ELSE IF me.totedge = 0 /\ (flag \cap SCE_SNAP_TO_VERTEX) = {} THEN SCE_SNAP_TO_NONE
  ELSE IF x.is_ob_data /\ ~x.bb_ok THEN SCE_SNAP_TO_NONE
  ELSE
    LET bvhtree0 == me.loose_edges
        bvhtree1 == (flag \cap SCE_SNAP_TO_VERTEX) # {} /\ me.loose_verts
        nearest0 == [index |-> -1, dist_sq |-> dist_px_sq]
        nearest1 == IF bvhtree1 THEN cb_snap_elem(nearest0, x.lv) ELSE nearest0
        last_index == nearest1.index
        edge_branch == (flag \cap SCE_SNAP_TO_EDGE) # {}
        nearest2 ==
          IF ~bvhtree0 THEN nearest1
          ELSE IF edge_branch THEN cb_snap_elem(nearest1, x.le)
          ELSE cb_snap_skip_same(nearest1, x.le)
        nearest3 ==
          IF ~tree THEN nearest2 ELSE cb_snap_skip_same(nearest2, x.tri)
        found ==
          IF edge_branch /\ last_index # nearest3.index
            THEN SCE_SNAP_TO_EDGE
            ELSE SCE_SNAP_TO_VERTEX
    IN IF nearest3.index # -1 THEN found ELSE SCE_SNAP_TO_NONE

\* ------------------------------------------------------------- raycastMesh
\* A triangle the BVH traversal meets: its looptri index and its distance
\* along the local ray.  NoHit: the traversal meets nothing.
NoHit == [index |-> -1, dist |-> 0]
RayCands(me, dists) == [index : 0 .. (Len(me.looptri_polys) - 1), dist : dists]

\* The bounding-box test: whether it is made (ob_eval->data == me_eval and
\* a bounding box exists), its result and the distance it reports.
BBOutcomes ==
  { [is_ob_data |-> FALSE, bb |-> TRUE, isect |-> FALSE, len_diff |-> 0],
    [is_ob_data |-> TRUE, bb |-> FALSE, isect |-> FALSE, len_diff |-> 0],
    [is_ob_data |-> TRUE, bb |-> TRUE, isect |-> FALSE, len_diff |-> 0] }
  \cup { [is_ob_data |-> TRUE, bb |-> TRUE, isect |-> TRUE, len_diff |-> l] :
           l \in LenDiffs }

SeqsUpTo(S, n) == UNION { [1 .. k -> S] : k \in 0 .. n }

\* Values of sctx->ret.loc / sctx->ret.no: the hit point and normal of a
\* triangle, carried to world space by the object's matrix.
NoLoc == [tri |-> -1, dist |-> 0]
NoNo == [tri |-> -1]
WorldLoc(hit) == [tri |-> hit.index, dist |-> hit.dist]
WorldNo(hit) == [tri |-> hit.index]

\* hit_list->last: the address of the last item, null (0) when empty.
ListLast(list) == IF Len(list) = 0 THEN 0 ELSE list[Len(list)].id

\* mesh_looptri_raycast_backface_culling_cb / treedata.raycast_callback:
\* an intersection replaces the hit only if 0 <= dist < hit->dist.
looptri_raycast_cb(hit, cand) ==
  IF cand # NoHit /\ cand.dist >= 0 /\ cand.dist < hit.dist
    THEN [index |-> cand.index, dist |-> cand.dist]
    ELSE hit

\* raycast_all_cb under BLI_bvhtree_ray_cast_all: every triangle met nearer
\* than hit_dist is appended to the list as a newly allocated item that
\* carries data.ob_uuid.
RECURSIVE ray_cast_all(_, _, _, _)
ray_cast_all(list, cands, hit_dist, ob_uuid) ==
  IF cands = <<>> THEN list
  ELSE
    LET hit == looptri_raycast_cb([index |-> -1, dist |-> hit_dist], Head(cands))
        item == [id |-> Len(list) + 1, ob_uuid |-> ob_uuid]
        next == IF hit.index # -1 THEN Append(list, item) ELSE list
    IN ray_cast_all(next, Tail(cands), hit_dist, ob_uuid)

\* Faulty variant: the polygon index is taken to be the triangle index.
hit_poly_triangle(me, tri) == tri

\* Faulty variant: loc and no are copied from the hit before the depth test.
reject_hit_copies(r, me, hit, depth) ==
  [r EXCEPT !.loc = WorldLoc(hit), !.no = WorldNo(hit)]

\* Faulty variant: the depth test is dropped.
hit_accepted_always(depth, ray_depth_max) == TRUE

\* Faulty variant: the list is tested for being non-empty, not for having grown.
list_changed_nonempty(hit_last_prev, list) == ListLast(list) # 0

\* hit.dist += len_diff; hit.dist /= local_scale;
hit_depth(dist, len_diff, local_scale) == FDiv(dist + len_diff, local_scale)

\* if (hit.dist <= sctx->ret.ray_depth_max)
hit_accepted(depth, ray_depth_max) == depth <= ray_depth_max

\* sctx->ret.index = looptri_polys[hit.index];
hit_poly(me, tri) == me.looptri_polys[tri + 1]

\* The accepted hit is stored in sctx->ret.
store_hit(r, me, hit, depth) ==
  [r EXCEPT !.loc = WorldLoc(hit), !.no = WorldNo(hit),
            !.ray_depth_max = depth, !.index = hit_poly(me, hit.index)]

\* A hit that is not accepted leaves sctx->ret as it was.
reject_hit(r, me, hit, depth) == r

\* retval = hit_last_prev != data.hit_list->last;
list_changed(hit_last_prev, list) == hit_last_prev # ListLast(list)

\* What the cast met: the triangle, its local distance, the len_diff and
\* local_scale in force, and the world depth (index -1: nothing met).
NoInfo == [index |-> -1, dist |-> 0, len_diff |-> 0, local_scale |-> 0, depth |-> 0]

\* x: local_scale, box (a BBOutcomes), cast (single-hit traversal result),
\* cast_all (triangles met by the all-hits traversal).
\* Result: retval, the new sctx->ret, and what the cast met.
raycastMesh(r, me, tree, ob_index, x) ==
  LET fail == [retval |-> FALSE, ret |-> r, hit |-> NoInfo]
      local_scale == x.local_scale
      local_depth0 ==
        IF r.ray_depth_max # BVH_RAYCAST_DIST_MAX
          THEN FMul(r.ray_depth_max, local_scale)
          ELSE r.ray_depth_max
      tested == x.box.is_ob_data /\ x.box.bb
      len_diff0 == IF tested /\ x.box.isect THEN x.box.len_diff ELSE 0
      far == len_diff0 > LenDiffFar * Unit
      len_diff == IF far THEN len_diff0 - local_scale ELSE 0
      local_depth == IF far THEN local_depth0 - len_diff ELSE local_depth0
  IN
  IF me.totpoly = 0 THEN fail
  ELSE IF tested /\ ~x.box.isect THEN fail
  ELSE IF ~tree THEN fail
  ELSE IF r.use_hit_list THEN
    LET hit_last_prev == ListLast(r.hit_list)
        list == ray_cast_all(r.hit_list, x.cast_all, r.ray_depth_max, ob_index)
    IN [retval |-> list_changed(hit_last_prev, list),
        ret |-> [r EXCEPT !.hit_list = list],
        hit |-> NoInfo]
  ELSE
    LET hit == looptri_raycast_cb([index |-> -1, dist |-> local_depth], x.cast)
        depth == hit_depth(hit.dist, len_diff, local_scale)
        info == [index |-> hit.index, dist |-> hit.dist, len_diff |-> len_diff,
                 local_scale |-> local_scale, depth |-> depth]
    IN
    IF hit.index # -1
      THEN IF hit_accepted(depth, r.ray_depth_max)
        THEN [retval |-> TRUE, ret |-> store_hit(r, me, hit, depth), hit |-> info]
        ELSE [retval |-> FALSE, ret |-> reject_hit(r, me, hit, depth), hit |-> info]
      ELSE fail

\* ------------------------------------------------------ nearest_world_mesh
\* nearest_world_tree reports whether a nearest surface point was found.
nearest_world_mesh(tree, found) == IF ~tree THEN FALSE ELSE found

\* ------------------------------------------------ mesh_snap_mode_supported
mesh_snap_mode_supported(me) ==
  (IF me.totpoly # 0
     THEN SCE_SNAP_TO_FACE \cup SCE_SNAP_INDIVIDUAL_NEAREST ELSE SCE_SNAP_TO_NONE)
  \cup
  (IF me.totedge # 0
     THEN SCE_SNAP_TO_EDGE \cup SCE_SNAP_TO_EDGE_MIDPOINT
            \cup SCE_SNAP_TO_EDGE_PERPENDICULAR
     ELSE SCE_SNAP_TO_NONE)
  \cup
  (IF me.totvert # 0 THEN SCE_SNAP_TO_VERTEX ELSE SCE_SNAP_TO_NONE)

VARIABLES
  pc,            \* position inside snap_object_mesh
  snap_to_flag,  \* the snap_to_flag argument (= sctx->runtime.snap_to_flag)
  mesh_eval,     \* the mesh argument
  has_tree,      \* the looptri BVH tree of the mesh is not null
  elem,          \* the value returned by snap_object_mesh
  stages,        \* stages run by the current call, in order, with results
  ret,           \* sctx->ret
  object_index,  \* sctx->runtime.object_index
  rc,            \* what the raycastMesh of the current call saw and did
  min_accepted,  \* least depth raycastMesh ever accepted (single-hit mode)
  in_link, mat_flags, out_link, gpu_ret, sh

snapVars ==
  <<pc, snap_to_flag, mesh_eval, has_tree, elem, stages, ret, object_index,
    rc, min_accepted>>
shaderVars == <<in_link, mat_flags, out_link, gpu_ret, sh>>
vars == <<snapVars, shaderVars>>

\* --------------------------------------------------------- snap_object_mesh
EdgeVertexModes ==
  SCE_SNAP_TO_EDGE \cup SCE_SNAP_TO_EDGE_MIDPOINT
    \cup SCE_SNAP_TO_EDGE_PERPENDICULAR \cup SCE_SNAP_TO_VERTEX

snap_mode_used(flag, me) == flag \cap mesh_snap_mode_supported(me)

\* Faulty variant: no early return after a successful snapMesh.
AfterSnapMesh_no_return(e) == "ray"

\* Where snap_object_mesh goes after each stage.
AfterSnapMesh(e) == IF e # SCE_SNAP_TO_NONE THEN "done" ELSE "ray"
AfterRaycast(retval) == IF retval THEN "done" ELSE "near"

NoRc == [ran |-> FALSE, retval |-> FALSE, hit |-> NoInfo, pre |-> <<>>]

\* Values nearest_world_tree may leave in sctx->ret.loc / no / index.
NearestLoc == [tri |-> -2, dist |-> 0]
NearestNo == [tri |-> -2]

Least(a, b) == IF a <= b THEN a ELSE b

\* A new snap context: nothing found yet; the caller sets the depth limit,
\* the pixel radius and whether all hits are to be listed.
InitSnap(depths) ==
  /\ pc = "idle"
  /\ snap_to_flag = SCE_SNAP_TO_NONE
  /\ mesh_eval = MeshOf(0, 0, 0, <<>>, FALSE, FALSE)
  /\ has_tree = FALSE
  /\ elem = SCE_SNAP_TO_NONE
  /\ stages = <<>>
  /\ \E d \in depths, l \in BOOLEAN, px \in DistPxSqs :
       ret = [loc |-> NoLoc, no |-> NoNo, index |-> -1, ray_depth_max |-> d,
              hit_list |-> <<>>, use_hit_list |-> l, dist_px_sq |-> px]
  /\ object_index = 0
  /\ rc = NoRc
  /\ min_accepted = -1

\* snap_object_mesh runs on one thread; pc is its position.  A call is the
\* steps Begin, StageSnapMesh, StageRaycast, StageNearest taken in that order
\* until pc = "done" (the return); no other call starts in between.
\* Entry of snap_object_mesh: the arguments of the call.  The looptri tree
\* is null when the mesh has no polygon, or with use_hide when all are hidden.
Begin(flags, meshes) ==
  /\ pc \in {"idle", "done"}
  /\ object_index < MaxObjects
  /\ Len(ret.hit_list) < MaxHitList
  /\ \E flag \in flags, me \in meshes, tree \in BOOLEAN :
       /\ tree => me.totpoly > 0
       /\ snap_to_flag' = flag
       /\ mesh_eval' = me
       /\ has_tree' = tree
  /\ elem' = SCE_SNAP_TO_NONE
  /\ stages' = <<>>
  /\ rc' = NoRc
  /\ pc' = "snap"
  /\ UNCHANGED <<ret, object_index, min_accepted>>

\* if (snap_mode_used & (EDGE | EDGE_MIDPOINT | EDGE_PERPENDICULAR | VERTEX))
StageSnapMesh(inputs) ==
  /\ pc = "snap"
  /\ IF (snap_mode_used(snap_to_flag, mesh_eval) \cap EdgeVertexModes) # {}
       THEN \E x \in inputs :
              LET e == snapMesh(snap_to_flag, mesh_eval, has_tree, ret.dist_px_sq, x)
              IN /\ elem' = e
                 /\ stages' = Append(stages, <<"snapMesh", e # SCE_SNAP_TO_NONE>>)
                 /\ pc' = AfterSnapMesh(e)
       ELSE /\ pc' = "ray"
            /\ UNCHANGED <<elem, stages>>
  /\ UNCHANGED <<snap_to_flag, mesh_eval, has_tree, ret, object_index, rc, min_accepted>>

\* if (snap_mode_used & SCE_SNAP_TO_FACE)
StageRaycast(scales, boxes, dists) ==
  /\ pc = "ray"
  /\ IF (snap_mode_used(snap_to_flag, mesh_eval) \cap SCE_SNAP_TO_FACE) # {}
       THEN \E scale \in scales, box \in boxes,
               cast \in (IF ret.use_hit_list THEN {NoHit}
                         ELSE {NoHit} \cup RayCands(mesh_eval, dists)),
               cast_all \in (IF ret.use_hit_list
                               THEN SeqsUpTo(RayCands(mesh_eval, dists),
                                             MaxHitList - Len(ret.hit_list))
                               ELSE {<<>>}) :
              LET x == [local_scale |-> scale, box |-> box, cast |-> cast,
                        cast_all |-> cast_all]
                  res == raycastMesh(ret, mesh_eval, has_tree, object_index, x)
                  accepted == res.retval /\ ~ret.use_hit_list
              IN /\ ret' = res.ret
                 /\ rc' = [ran |-> TRUE, retval |-> res.retval, hit |-> res.hit,
                           pre |-> ret]
                 /\ elem' = IF res.retval THEN SCE_SNAP_TO_FACE ELSE elem
                 /\ stages' = Append(stages, <<"raycastMesh", res.retval>>)
                 /\ pc' = AfterRaycast(res.retval)
                 /\ min_accepted' =
                      IF ~accepted THEN min_accepted
                      ELSE IF min_accepted = -1 THEN res.hit.depth
                      ELSE Least(min_accepted, res.hit.depth)
                 /\ object_index' = object_index + 1
       ELSE /\ pc' = "near"
            /\ UNCHANGED <<elem, stages, ret, rc, object_index, min_accepted>>
  /\ UNCHANGED <<snap_to_flag, mesh_eval, has_tree>>

\* if (snap_mode_used & SCE_SNAP_INDIVIDUAL_NEAREST), then the final return.
\* nearest_world_tree may or may not have stored its point in sctx->ret.
StageNearest ==
  /\ pc = "near"
  /\ IF (snap_mode_used(snap_to_flag, mesh_eval) \cap SCE_SNAP_INDIVIDUAL_NEAREST) # {}
       THEN \E found \in BOOLEAN, wrote \in BOOLEAN :
              LET ok == nearest_world_mesh(has_tree, found)
              IN /\ elem' = IF ok THEN SCE_SNAP_INDIVIDUAL_NEAREST ELSE SCE_SNAP_TO_NONE
                 /\ stages' = Append(stages, <<"nearest_world_mesh", ok>>)
                 /\ ret' = IF ok /\ wrote
                              THEN [ret EXCEPT !.loc = NearestLoc, !.no = NearestNo,
                                               !.index = 0]
                              ELSE ret
       ELSE /\ elem' = SCE_SNAP_TO_NONE
            /\ UNCHANGED <<stages, ret>>
  /\ pc' = "done"
  /\ UNCHANGED <<snap_to_flag, mesh_eval, has_tree, object_index, rc, min_accepted>>

\* ------------------------------------------------ node_shader_gpu_shader_test
\* The four declared inputs: Color, Roughness, Normal, Weight (in[0..3]).
Inputs == 0 .. 3
UserLinks == {"null", "link_a", "link_b"}

\* GPU_link(mat, name, &in[i].link): the link becomes the function's output.
GPU_link(links, i, name) == [links EXCEPT ![i] = name]

\* Faulty variant: the world normal is linked whether or not a link exists.
default_normal_always(links) == GPU_link(links, 2, "world_normals_get")

\* if (!in[2].link) GPU_link(mat, "world_normals_get", &in[2].link);
default_normal(links) ==
  IF links[2] = "null" THEN GPU_link(links, 2, "world_normals_get") ELSE links

\* GPU_material_flag_set(mat, GPU_MATFLAG_DIFFUSE)
GPU_material_flag_set(flags, f) == flags \cup {f}

InitShader ==
  /\ in_link \in [Inputs -> UserLinks]
  /\ mat_flags \in SUBSET {"GPU_MATFLAG_GLOSSY"}
  /\ out_link = "null"
  /\ gpu_ret = FALSE
  /\ sh = [called |-> FALSE, pre_in |-> in_link, pre_flags |-> mat_flags,
           stack_ret |-> FALSE]

node_shader_gpu_shader_test ==
  \E stack_ok \in BOOLEAN :
    /\ in_link' = default_normal(in_link)
    /\ mat_flags' = GPU_material_flag_set(mat_flags, "GPU_MATFLAG_DIFFUSE")
    /\ gpu_ret' = stack_ok
    /\ out_link' = IF stack_ok THEN "node_shader_test" ELSE out_link
    /\ sh' = [called |-> TRUE, pre_in |-> in_link, pre_flags |-> mat_flags,
              stack_ret |-> stack_ok]

ShaderIdle ==
  /\ in_link = [i \in Inputs |-> "null"]
  /\ mat_flags = {}
  /\ out_link = "null"
  /\ gpu_ret = FALSE
  /\ sh = [called |-> FALSE, pre_in |-> in_link, pre_flags |-> mat_flags,
           stack_ret |-> FALSE]

\* ---------------------------------------------------------- specifications
\* Spec: every snap_to_flag on every mesh; the ray cast meets near triangles.
BeginAny == Begin(SUBSET SnapModeBits, Meshes) /\ UNCHANGED shaderVars
SnapStage == StageSnapMesh(SnapInputs) /\ UNCHANGED shaderVars
RayStageNear ==
  /\ StageRaycast({Unit}, {b \in BBOutcomes : b.len_diff = 0}, {1})
  /\ UNCHANGED shaderVars
NearestStage == StageNearest /\ UNCHANGED shaderVars
Init == InitSnap({BVH_RAYCAST_DIST_MAX}) /\ ShaderIdle
Next == BeginAny \/ SnapStage \/ RayStageNear \/ NearestStage
Spec == Init /\ [][Next]_vars

\* SpecRay: face snapping, over every scale, bounding-box outcome and distance.
RayFlags ==
  { SCE_SNAP_TO_FACE,
    SCE_SNAP_TO_FACE \cup SCE_SNAP_INDIVIDUAL_NEAREST,
    SCE_SNAP_TO_FACE \cup SCE_SNAP_TO_VERTEX }
InitDepths == {BVH_RAYCAST_DIST_MAX, 6 * Unit}
BeginFace == Begin(RayFlags, Meshes) /\ UNCHANGED shaderVars
SnapStageFew == StageSnapMesh(SnapInputsFew) /\ UNCHANGED shaderVars
RayStage == StageRaycast(LocalScales, BBOutcomes, HitDists) /\ UNCHANGED shaderVars
InitRay == InitSnap(InitDepths) /\ ShaderIdle
NextRay == BeginFace \/ SnapStageFew \/ RayStage \/ NearestStage
SpecRay == InitRay /\ [][NextRay]_vars

\* SpecShader: the GPU callback of the Shader Test node.
ShaderCall == node_shader_gpu_shader_test /\ UNCHANGED snapVars
InitSh == InitSnap({BVH_RAYCAST_DIST_MAX}) /\ ~ret.use_hit_list /\ InitShader
NextShader == ShaderCall
SpecShader == InitSh /\ [][NextShader]_vars

\* ------------------------------------------------------------------ claims
\* The stages the claim calls "requested and supported by the mesh", in the
\* claimed order.
StageIf(b, name) == IF b THEN <<name>> ELSE <<>>
Applicable ==
  LET used == snap_mode_used(snap_to_flag, mesh_eval)
  IN StageIf((used \cap EdgeVertexModes) # {}, "snapMesh")
       \o StageIf((used \cap SCE_SNAP_TO_FACE) # {}, "raycastMesh")
       \o StageIf((used \cap SCE_SNAP_INDIVIDUAL_NEAREST) # {}, "nearest_world_mesh")

StageResults(name) ==
  IF name = "snapMesh" THEN {SCE_SNAP_TO_VERTEX, SCE_SNAP_TO_EDGE}
  ELSE IF name = "raycastMesh" THEN {SCE_SNAP_TO_FACE}
  ELSE {SCE_SNAP_INDIVIDUAL_NEAREST}

\* C1: when snap_object_mesh has returned, the stages it ran are the
\* applicable ones taken in the order snapMesh, raycastMesh,
\* nearest_world_mesh, up to and including the first that succeeded; every
\* stage before the last one run failed; a result other than SCE_SNAP_TO_NONE
\* is the result of the last stage run, which succeeded; and the result is
\* SCE_SNAP_TO_NONE exactly when every applicable stage ran and failed.
C1_FixedOrderFirstSuccess ==
  pc = "done" =>
    /\ Len(stages) <= Len(Applicable)
    /\ \A i \in 1 .. Len(stages) : stages[i][1] = Applicable[i]
    /\ \A i \in 1 .. (Len(stages) - 1) : ~stages[i][2]
    /\ elem # SCE_SNAP_TO_NONE =>
         /\ Len(stages) > 0
         /\ stages[Len(stages)][2]
         /\ elem \in StageResults(stages[Len(stages)][1])
    /\ elem = SCE_SNAP_TO_NONE <=>
         /\ Len(stages) = Len(Applicable)
         /\ \A i \in 1 .. Len(stages) : ~stages[i][2]

\* C1 witness: edge/vertex snapping failed, the ray cast then succeeded, and
\* the nearest-surface stage, although applicable, was not run.
C1_Witness ==
  /\ pc = "done"
  /\ stages = << <<"snapMesh", FALSE>>, <<"raycastMesh", TRUE>> >>
  /\ elem = SCE_SNAP_TO_FACE
  /\ Len(Applicable) = 3

\* What the claim says a mesh supports.
ClaimSupported(me) ==
  { m \in SnapModeBits :
      /\ m \in (SCE_SNAP_TO_FACE \cup SCE_SNAP_INDIVIDUAL_NEAREST) => me.totpoly > 0
      /\ m \in (SCE_SNAP_TO_EDGE \cup SCE_SNAP_TO_EDGE_MIDPOINT
                  \cup SCE_SNAP_TO_EDGE_PERPENDICULAR) => me.totedge > 0
      /\ m \in SCE_SNAP_TO_VERTEX => me.totvert > 0 }

\* C2: the value returned by snap_object_mesh is SCE_SNAP_TO_NONE or a single
\* snap mode that is requested in snap_to_flag and supported by the mesh.
C2_ReturnsRequestedSupportedMode ==
  pc = "done" =>
    \/ elem = SCE_SNAP_TO_NONE
    \/ /\ Cardinality(elem) = 1
       /\ elem \subseteq snap_to_flag
       /\ elem \subseteq ClaimSupported(mesh_eval)

\* The states in which sctx->ret is what raycastMesh left: it returned true
\* (snap_object_mesh returns at once) or false and the next stage has not run.
AfterRaycastMesh == rc.ran /\ (rc.retval \/ pc = "near")

\* C3: in single-hit mode a BVH hit is accepted exactly when its world depth
\* (hit.dist + len_diff) / local_scale is <= ray_depth_max; an accepted hit
\* makes raycastMesh return true with ray_depth_max set to that depth, index
\* set to the polygon of the hit triangle, and loc and no written from the
\* hit; a deeper hit makes it return false.
C3_SingleHitAcceptance ==
  (AfterRaycastMesh /\ ~rc.pre.use_hit_list) =>
    LET depth == RoundDiv((rc.hit.dist + rc.hit.len_diff) * Unit, rc.hit.local_scale)
    IN /\ rc.retval => rc.hit.index # -1
       /\ rc.hit.index # -1 =>
            /\ rc.retval <=> depth <= rc.pre.ray_depth_max
            /\ rc.retval =>
                 /\ ret.ray_depth_max = depth
                 /\ ret.index = mesh_eval.looptri_polys[rc.hit.index + 1]
                 /\ ret.loc = [tri |-> rc.hit.index, dist |-> rc.hit.dist]
                 /\ ret.no = [tri |-> rc.hit.index]

\* C3 witness: a hit beyond a far bounding box, on a scaled object, in a
\* triangle whose polygon index differs from its own, was accepted.
C3_Witness ==
  /\ AfterRaycastMesh
  /\ ~rc.pre.use_hit_list
  /\ rc.retval
  /\ rc.hit.len_diff > 0
  /\ rc.hit.local_scale # Unit
  /\ ret.index # rc.hit.index

\* C4: when raycastMesh has returned false, ret.loc, ret.no, ret.index and
\* ret.ray_depth_max are as before the call, and so is the hit list.
C4_FalseLeavesRetUnchanged ==
  (AfterRaycastMesh /\ ~rc.retval) =>
    /\ ret.loc = rc.pre.loc
    /\ ret.no = rc.pre.no
    /\ ret.index = rc.pre.index
    /\ ret.ray_depth_max = rc.pre.ray_depth_max
    /\ ret.hit_list = rc.pre.hit_list

\* C4 witness: a triangle was hit, deeper than ray_depth_max, after an
\* earlier call had stored a hit; raycastMesh returned false.
C4_Witness ==
  /\ AfterRaycastMesh
  /\ ~rc.retval
  /\ rc.hit.index # -1
  /\ rc.pre.loc # NoLoc

\* C5: in hit-list mode raycastMesh returns true exactly when it appended to
\* the hit list (the last item changed); the items already listed stay; and
\* ret.loc, ret.no, ret.index and ret.ray_depth_max are not written.
C5_HitListMode ==
  (AfterRaycastMesh /\ rc.pre.use_hit_list) =>
    /\ rc.retval <=> Len(ret.hit_list) > Len(rc.pre.hit_list)
    /\ rc.retval <=> ListLast(ret.hit_list) # ListLast(rc.pre.hit_list)
    /\ SubSeq(ret.hit_list, 1, Len(rc.pre.hit_list)) = rc.pre.hit_list
    /\ ret.loc = rc.pre.loc
    /\ ret.no = rc.pre.no
    /\ ret.index = rc.pre.index
    /\ ret.ray_depth_max = rc.pre.ray_depth_max

\* C5 witness: a second object added a hit to a list that already held one
\* of the first object.
C5_Witness ==
  /\ AfterRaycastMesh
  /\ rc.pre.use_hit_list
  /\ rc.retval
  /\ Len(rc.pre.hit_list) > 0
  /\ ret.hit_list[Len(ret.hit_list)].ob_uuid # ret.hit_list[1].ob_uuid

\* C7 (state part): in single-hit mode ray_depth_max is the least depth ever
\* accepted, and when the call returned SCE_SNAP_TO_FACE the hit in ret.loc /
\* ret.index is the one at that depth.
C7_NearestKept ==
  ~ret.use_hit_list =>
    /\ min_accepted # -1 => ret.ray_depth_max = min_accepted
    /\ (pc = "done" /\ elem = SCE_SNAP_TO_FACE) =>
         /\ rc.hit.depth = ret.ray_depth_max
         /\ ret.loc = [tri |-> rc.hit.index, dist |-> rc.hit.dist]
         /\ ret.index = mesh_eval.looptri_polys[rc.hit.index + 1]

C6_DefaultNormalOnlyWhenUnlinked ==
  sh.called =>
    /\ in_link[2] # "null"
    /\ sh.pre_in[2] # "null" => in_link[2] = sh.pre_in[2]
    /\ sh.pre_in[2] = "null" => in_link[2] = "world_normals_get"
    /\ \A i \in Inputs \ {2} : in_link[i] = sh.pre_in[i]
    /\ "GPU_MATFLAG_DIFFUSE" \in mat_flags
    /\ sh.pre_flags \subseteq mat_flags
    /\ gpu_ret = sh.stack_ret

\* C6 witness: a call on a node whose Normal input had no link.
C6_Witness ==
  /\ sh.called
  /\ sh.pre_in[2] = "null"
  /\ in_link[2] = "world_normals_get"
  /\ in_link[0] # "null"

====
